---- MODULE Spec2Model ----
(***************************************************************************)
(* Native Memory Tracker: the VMATree interval map over a treap, its       *)
(* register_mapping operation with online summary accounting, and the      *)
(* reserve/commit/uncommit/release/set_tag entry points built on it.       *)
(***************************************************************************)
EXTENDS Integers, Sequences, FiniteSets, TLC

\* ------------------------------------------------------------------ bounds
\* Positions are 0..MaxPos.
MaxPos == 3
\* Number of recording operations in one behaviour of Spec.
MaxOps == 3
\* Memory tags other than mtNone are 1..NumTags.
NumTags == 2
\* Call-stack handles other than the default handle are 1..NumStacks.
NumStacks == 2
\* Positions of the scripted scenarios are 0..ScenPos.
ScenPos == 4
\* Threads of the benchmark run.
MaxThreads == 2
\* Regions each benchmark thread reserves.
MaxRegions == 2
\* Slots of a chunk of call stacks (256 in the code).
static_chunk_size == 2
\* Call stacks other than the empty stack are 1..NumCallStacks.
NumCallStacks == 3
\* Pushes in one behaviour of SpecStorage.
MaxPushes == 4
\* Old-style tags are 0..mt_number_of_tags - 1.
mt_number_of_tags == 2
\* Values of the tag integer type (256 in the code: one byte).
MemTagValues == 4
\* Registrations in one behaviour of SpecTable.
MaxMade == 4

BufSize == 8

MaxProducers == 2

MaxMsgs == 3

MaxStr == 3

\* ------------------------------------------------------------- data model
\* enum class InOut { Reserved, Committed, Released }
Reserved == "Reserved"
Committed == "Committed"
Released == "Released"

\* The tag of a default-constructed metadata value.
mtNone == 0

\* METADATA(): stack_idx(0, 0), flag(mtNone).
METADATA == [stack_idx |-> 0, mem_tag |-> mtNone]

\* RegionData(NativeCallStackStorage::StackIndex stack_idx, MemTag mem_tag)
RegionData(stack_idx, mem_tag) == [stack_idx |-> stack_idx, mem_tag |-> mem_tag]

\* RegionData::equals, the EquivalentMetadata template argument.
EquivalentMetadata(a, b) == a.mem_tag = b.mem_tag /\ a.stack_idx = b.stack_idx

\* struct State { InOut in; InOut out; METADATA metadata; }
State(in, out, metadata) == [in |-> in, out |-> out, metadata |-> metadata]

\* bool is_noop(State st)
is_noop(st) == st.in = st.out

\* int addr_cmp(size_t a, size_t b): negative, zero or positive.
addr_cmp(a, b) == IF a < b THEN -1 ELSE IF a = b THEN 0 ELSE 1

\* ------------------------------------------------------------------- prng
\* prng_seed is a 48-bit value, kept as four 12-bit limbs, least significant
\* first, so that the product below stays within the integers of the checker.
LimbBase == 4096
\* PrngMult = 0x5DEECE66D = 0x5DE * 2^24 + 0xECE * 2^12 + 0x66D
PrngMult == <<1645, 3790, 1502>>
PrngAdd == 11

\* (PrngMult * prng_seed + PrngAdd) & PrngModMask
prng_next(s) ==
  LET c1 == s[1] * PrngMult[1] + PrngAdd
      c2 == s[2] * PrngMult[1] + s[1] * PrngMult[2] + (c1 \div LimbBase)
      c3 == s[3] * PrngMult[1] + s[2] * PrngMult[2] + s[1] * PrngMult[3]
            + (c2 \div LimbBase)
      c4 == s[4] * PrngMult[1] + s[3] * PrngMult[2] + s[2] * PrngMult[3]
            + (c3 \div LimbBase)
  IN  <<c1 % LimbBase, c2 % LimbBase, c3 % LimbBase, c4 % LimbBase>>

\* left->priority > right->priority on the limbs
PriorityGT(a, b) ==
  \/ a[4] > b[4]
  \/ a[4] = b[4] /\ a[3] > b[3]
  \/ a[4] = b[4] /\ a[3] = b[3] /\ a[2] > b[2]
  \/ a[4] = b[4] /\ a[3] = b[3] /\ a[2] = b[2] /\ a[1] > b[1]

\* TreapCHeap(uint64_t seed = 1234): VMATree constructs its treap with the
\* default seed.
DefaultSeed == <<1234, 0, 0, 0>>

\* ------------------------------------------------------------------ treap
\* A treap is nullptr or a node {priority, key, value, left, right}.
nullptr == [isnull |-> TRUE]
TreapNode(k, v, p) ==
  [isnull |-> FALSE, priority |-> p, key |-> k, value |-> v,
   left |-> nullptr, right |-> nullptr]

LT == "LT"
LEQ == "LEQ"

RECURSIVE split(_, _, _)
split(head, key, mode) ==
  IF head.isnull THEN [left |-> nullptr, right |-> nullptr]
  ELSE IF \/ (addr_cmp(head.key, key) <= 0 /\ mode = LEQ)
          \/ (addr_cmp(head.key, key) < 0 /\ mode = LT)
       THEN CHOOSE r \in
              {[left |-> [head EXCEPT !.right = p.left], right |-> p.right] :
                 p \in {split(head.right, key, mode)}} : TRUE
       ELSE CHOOSE r \in
              {[left |-> p.left, right |-> [head EXCEPT !.left = p.right]] :
                 p \in {split(head.left, key, mode)}} : TRUE

RECURSIVE merge(_, _)
merge(left, right) ==
  IF left.isnull THEN right
  ELSE IF right.isnull THEN left
  ELSE IF PriorityGT(left.priority, right.priority)
       THEN [left EXCEPT !.right = merge(left.right, right)]
       ELSE [right EXCEPT !.left = merge(left, right.left)]

\* A node pointer is the path from the root to the node; NullPtr is no node.
NullPtr == <<>>
Ptr(path) == <<path>>
PathOf(ptr) == ptr[1]

RECURSIVE NodeAt(_, _)
NodeAt(t, path) ==
  IF path = <<>> \/ t.isnull THEN t
  ELSE IF Head(path) = "left" THEN NodeAt(t.left, Tail(path))
       ELSE NodeAt(t.right, Tail(path))

\* node->value = v for the node at path
RECURSIVE SetValue(_, _, _)
SetValue(t, path, v) ==
  IF t.isnull THEN t
  ELSE IF path = <<>> THEN [t EXCEPT !.value = v]
  ELSE IF Head(path) = "left"
       THEN [t EXCEPT !.left = SetValue(t.left, Tail(path), v)]
       ELSE [t EXCEPT !.right = SetValue(t.right, Tail(path), v)]

\* TreapNode::find: the pointer to the node found, or NullPtr.
RECURSIVE find(_, _, _)
find(node, path, k) ==
  IF node.isnull THEN NullPtr
  ELSE IF addr_cmp(node.key, k) = 0 THEN Ptr(path)
  ELSE IF addr_cmp(node.key, k) <= 0
       THEN find(node.left, Append(path, "left"), k)
       ELSE find(node.right, Append(path, "right"), k)

\* TreapNode::upsert with the make_node of TreapCHeap::upsert: the new root
\* and the seed after the call. (A value computed once and used several
\* times is bound as the only element of a set.)
upsert(head, k, v, seed) ==
  CHOOSE r \in
    {LET found == find(sp.left, <<>>, k) IN
     IF found # NullPtr
     THEN [tree |-> merge(SetValue(sp.left, PathOf(found), v), sp.right),
           prng_seed |-> seed]
     ELSE CHOOSE q \in
            {[tree |-> merge(m, sp.right), prng_seed |-> rand] :
               m \in {merge(sp.left, TreapNode(k, v, rand))}} : TRUE
     : sp \in {split(head, k, LEQ)}, rand \in {prng_next(seed)}} : TRUE

\* remove with the middle part merged back in.
remove_keeps_key(head, k) ==
  CHOOSE r \in
    {CHOOSE q \in
       {merge(merge(sndSplit.left, sndSplit.right), fstSplit.right) :
          sndSplit \in {split(fstSplit.left, k, LT)}} : TRUE
     : fstSplit \in {split(head, k, LEQ)}} : TRUE

\* TreapNode::remove with the free of TreapCHeap::remove: only the root of the
\* middle part is freed, and the outer parts are merged.
remove(head, k) ==
  CHOOSE r \in
    {CHOOSE q \in
       {merge(sndSplit.left, fstSplit.right) :
          sndSplit \in {split(fstSplit.left, k, LT)}} : TRUE
     : fstSplit \in {split(head, k, LEQ)}} : TRUE

\* In-order sequence of the nodes of a treap, as [key, value] records.
RECURSIVE InOrder(_)
InOrder(t) ==
  IF t.isnull THEN <<>>
  ELSE InOrder(t.left) \o <<[key |-> t.key, value |-> t.value]>> \o InOrder(t.right)

\* --------------------------------------------------------------- VMATree
\* struct SummaryDiff { int64_t reserve; int64_t commit; }
SummaryDiff(reserve, commit) == [reserve |-> reserve, commit |-> commit]

\* static METADATA no_merge(METADATA& a, METADATA& b)
no_merge(a, b) == a

\* The merge strategy of a call with use_tag_inplace: the tag of the existing
\* node is kept and the stack of the caller is adopted.
tag_inplace_merge(a, b) == RegionData(a.stack_idx, b.mem_tag)

\* merge(a, b) for the strategy the caller selected.
merge_strategy(use_tag_inplace, a, b) ==
  IF use_tag_inplace THEN tag_inplace_merge(a, b) ELSE no_merge(a, b)

\* The LE search at the start of register_mapping: head walks down from the
\* root, leqA_n is the candidate so far.
RECURSIVE le_search(_, _, _, _)
le_search(t, path, A, leqA_n) ==
  LET head == NodeAt(t, path) IN
  IF head.isnull THEN leqA_n
  ELSE LET cmp_r == addr_cmp(head.key, A)
           exact == IF cmp_r = 0 THEN Ptr(path) ELSE leqA_n
       IN  IF cmp_r < 0
           THEN le_search(t, Append(path, "right"), A, Ptr(path))
           ELSE le_search(t, Append(path, "left"), A, exact)

\* "First handle A": the tree and seed after the step, and stB as it stands.
handle_A(t, seed, A, state, metadata, use_tag_inplace) ==
  LET stA == State(Released, state, metadata)
      stB == State(state, Released, METADATA)
      leqA_n == le_search(t, <<>>, A, NullPtr)
  IN  IF leqA_n = NullPtr
      THEN IF is_noop(stA)
           THEN [tree |-> t, prng_seed |-> seed, stB |-> stB]
           ELSE CHOOSE r \in
                  {[tree |-> u.tree, prng_seed |-> u.prng_seed, stB |-> stB] :
                     u \in {upsert(t, A, stA, seed)}} : TRUE
      ELSE LET n == NodeAt(t, PathOf(leqA_n))
               stB1 == [stB EXCEPT !.out = n.value.out,
                                   !.metadata = n.value.metadata]
           IN  IF n.key = A
               THEN LET stA1 == [stA EXCEPT !.in = n.value.in]
                    IN  IF is_noop(stA1)
                           /\ EquivalentMetadata(stA1.metadata, n.value.metadata)
                        THEN [tree |-> remove(t, n.key), prng_seed |-> seed,
                              stB |-> stB1]
                        ELSE LET stA2 == [stA1 EXCEPT !.metadata =
                                            merge_strategy(use_tag_inplace,
                                                           stA1.metadata,
                                                           n.value.metadata)]
                             IN  [tree |-> SetValue(t, PathOf(leqA_n), stA2),
                                  prng_seed |-> seed, stB |-> stB1]
               ELSE LET stA1 == [stA EXCEPT !.in = n.value.out]
                    IN  IF is_noop(stA1)
                           /\ EquivalentMetadata(stA1.metadata, n.value.metadata)
                        THEN [tree |-> t, prng_seed |-> seed, stB |-> stB1]
                        ELSE CHOOSE r \in
                               {[tree |-> u.tree, prng_seed |-> u.prng_seed,
                                 stB |-> stB1] :
                                  u \in {upsert(t, A, stA1, seed)}} : TRUE

\* struct SizeType { size_t address; InOut in; InOut out; }
SizeType(address, in, out) == [address |-> address, in |-> in, out |-> out]

\* One iteration of the loop over to_visit: s holds the tree (node values are
\* rewritten in place), the stack to_visit of node pointers, stB,
\* B_needs_insert, to_be_deleted and whether the break was taken.
visit_step(s, A, B, use_tag_inplace) ==
  LET path == s.to_visit[Len(s.to_visit)]
      rest == SubSeq(s.to_visit, 1, Len(s.to_visit) - 1)
      head == NodeAt(s.tree, path)
  IN
  IF head.isnull
  THEN [s EXCEPT !.to_visit = rest]
  ELSE
    LET cmp_A == addr_cmp(head.key, A)
        cmp_B == addr_cmp(head.key, B)
    IN
    IF cmp_B > 0
    THEN [s EXCEPT !.to_visit = rest, !.break = TRUE,
                   !.stB.out = IF s.B_needs_insert THEN head.value.in ELSE @]
    ELSE IF cmp_A > 0 /\ cmp_B <= 0
    THEN
      LET stB1 == [s.stB EXCEPT !.out = head.value.out]
          both == rest \o <<Append(path, "left"), Append(path, "right")>>
      IN
      IF cmp_B < 0
      THEN [s EXCEPT !.to_visit = both, !.stB = stB1,
                     !.to_be_deleted = Append(@,
                        SizeType(head.key, head.value.out, head.value.out))]
      ELSE IF is_noop(stB1)
              /\ EquivalentMetadata(stB1.metadata, head.value.metadata)
      THEN [s EXCEPT !.to_visit = both, !.stB = stB1,
                     !.B_needs_insert = FALSE,
                     !.to_be_deleted = Append(@, SizeType(B, stB1.in, stB1.out))]
      ELSE LET stB2 == [stB1 EXCEPT !.metadata =
                          merge_strategy(use_tag_inplace, stB1.metadata,
                                         head.value.metadata)]
           IN  [s EXCEPT !.to_visit = both, !.stB = stB2,
                         !.B_needs_insert = FALSE,
                         !.tree = SetValue(s.tree, path, stB2)]
    ELSE IF cmp_A < 0
    THEN [s EXCEPT !.to_visit = Append(rest, Append(path, "right"))]
    ELSE [s EXCEPT !.to_visit = rest]

\* while (!to_visit.is_empty()) { ... }: the loop ends when the stack is
\* empty or at the break.
RECURSIVE visit_loop(_, _, _, _)
visit_loop(s, A, B, use_tag_inplace) ==
  IF s.to_visit = <<>> \/ s.break THEN s
  ELSE CHOOSE r \in
         {visit_loop(n, A, B, use_tag_inplace) :
            n \in {visit_step(s, A, B, use_tag_inplace)}} : TRUE

\* The final loop: nodes are removed from the top of to_be_deleted and the
\* bytes between prev and each address are taken off the diff.
RECURSIVE delete_loop(_, _, _, _)
delete_loop(t, to_be_deleted, prev, diff) ==
  IF to_be_deleted = <<>> THEN [tree |-> t, diff |-> diff]
  ELSE
    LET delete_me == to_be_deleted[Len(to_be_deleted)]
        d == delete_me.address - prev
    IN  CHOOSE r \in
          {delete_loop(t1, rest, delete_me.address, diff1) :
             t1 \in {remove(t, delete_me.address)},
             rest \in {SubSeq(to_be_deleted, 1, Len(to_be_deleted) - 1)},
             diff1 \in {IF delete_me.in = Reserved
                        THEN SummaryDiff(diff.reserve - d, diff.commit)
                        ELSE IF delete_me.in = Committed
                        THEN SummaryDiff(diff.reserve - d, diff.commit - d)
                        ELSE diff}} : TRUE

\* "Insert B node if needed": the tree and seed after the step.
insert_B(v, seed, B) ==
  IF v.B_needs_insert
     /\ (~is_noop(v.stB) \/ ~EquivalentMetadata(v.stB.metadata, METADATA))
  THEN upsert(v.tree, B, v.stB, seed)
  ELSE [tree |-> v.tree, prng_seed |-> seed]

\* The end of register_mapping: the deletions with their accounting, then the
\* bytes of [A, B) in the new state are added to the diff.
finish(b, to_be_deleted, A, B, state) ==
  CHOOSE r \in
    {[tree |-> d.tree, prng_seed |-> b.prng_seed,
      diff |-> IF state = Reserved
               THEN SummaryDiff(d.diff.reserve + (B - A), d.diff.commit)
               ELSE IF state = Committed
               THEN SummaryDiff(d.diff.reserve + (B - A),
                                d.diff.commit + (B - A))
               ELSE d.diff] :
       d \in {delete_loop(b.tree, to_be_deleted, A, SummaryDiff(0, 0))}} : TRUE

\* SummaryDiff register_mapping(size_t A, size_t B, InOut state,
\*                              METADATA& metadata, Merge merge)
register_mapping(t, seed, A, B, state, metadata, use_tag_inplace) ==
  CHOOSE r \in
    {CHOOSE q \in
       {CHOOSE p \in
          {finish(b, v.to_be_deleted, A, B, state) :
             b \in {insert_B(v, a.prng_seed, B)}} : TRUE
        : v \in {visit_loop([tree |-> a.tree, to_visit |-> << <<>> >>,
                             stB |-> a.stB, B_needs_insert |-> TRUE,
                             to_be_deleted |-> <<>>, break |-> FALSE],
                            A, B, use_tag_inplace)}} : TRUE
     : a \in {handle_A(t, seed, A, state, metadata, use_tag_inplace)}} : TRUE

\* reserve_mapping: register_mapping(from, from + sz, Reserved, metadata) with
\* the caller's metadata taking over (use_tag_inplace = false).
reserve_mapping(t, seed, from, sz, metadata) ==
  register_mapping(t, seed, from, from + sz, Reserved, metadata, FALSE)

\* commit_mapping(from, sz, metadata, diff, use_tag_inplace)
commit_mapping(t, seed, from, sz, metadata, use_tag_inplace) ==
  register_mapping(t, seed, from, from + sz, Committed, metadata, use_tag_inplace)

\* uncommit_mapping: state Reserved with use_tag_inplace = true.
uncommit_mapping(t, seed, from, sz, metadata) ==
  register_mapping(t, seed, from, from + sz, Reserved, metadata, TRUE)

\* release_mapping: state Released with the empty metadata.
release_mapping(t, seed, from, sz) ==
  register_mapping(t, seed, from, from + sz, Released, METADATA, FALSE)

\* RegionsTree::commit_region: the tag passed is mtNone and the tag in place
\* is to be used.
commit_region(t, seed, addr, size, stack) ==
  commit_mapping(t, seed, addr, size, RegionData(stack, mtNone), TRUE)

\* RegionsTree::uncommit_region: the empty stack and mtNone.
uncommit_region(t, seed, addr, size) ==
  uncommit_mapping(t, seed, addr, size, RegionData(0, mtNone))

\* SummaryDiff::apply: the sum of two diffs.
apply(this, other) ==
  SummaryDiff(this.reserve + other.reserve, this.commit + other.commit)

\* find_enclosing_range(from): start is the last node with key <= from, end is
\* the first node with key > from; 0 stands for no such node.
find_enclosing_range(t, from) ==
  LET io == InOrder(t)
      le == {i \in 1..Len(io) : io[i].key <= from}
      gt == {i \in 1..Len(io) : io[i].key > from}
  IN  [start |-> IF le = {} THEN 0 ELSE CHOOSE i \in le : \A j \in le : j <= i,
       end |-> IF gt = {} THEN 0 ELSE CHOOSE i \in gt : \A j \in gt : i <= j]

MIN2(a, b) == IF a < b THEN a ELSE b

\* set_tag without the MIN2: every call runs to the end of the enclosing range.
RECURSIVE set_tag_to_range_end(_, _, _, _, _, _, _)
set_tag_to_range_end(t, seed, from, sz, mem_tag, diff, calls) ==
  LET rng == find_enclosing_range(t, from)
      io == InOrder(t)
  IN  IF rng.start = 0 \/ rng.end = 0
      THEN [ok |-> FALSE, tree |-> t, prng_seed |-> seed, diff |-> diff,
            calls |-> calls]
      ELSE LET type == io[rng.start].value.out
               old_data == io[rng.start].value.metadata
               new_data == RegionData(old_data.stack_idx, mem_tag)
               end == io[rng.end].key
               calls1 == Append(calls, <<from, end>>)
           IN  CHOOSE res \in
                 {IF end < from + sz
                  THEN set_tag_to_range_end(r.tree, r.prng_seed, end,
                                            sz - (end - from), mem_tag, r.diff,
                                            calls1)
                  ELSE [ok |-> TRUE, tree |-> r.tree, prng_seed |-> r.prng_seed,
                        diff |-> r.diff, calls |-> calls1] :
                    r \in {[x EXCEPT !.diff = apply(diff, @)] :
                             x \in {register_mapping(t, seed, from, end, type,
                                                     new_data, FALSE)}}}
                 : TRUE

\* VMATree::set_tag: ok is FALSE when the assert on the enclosing range fails
\* in this call or in a recursive one; calls is the list of [from, end) ranges
\* handed to register_mapping.
RECURSIVE set_tag(_, _, _, _, _, _, _)
set_tag(t, seed, from, sz, mem_tag, diff, calls) ==
  LET rng == find_enclosing_range(t, from)
      io == InOrder(t)
  IN  IF rng.start = 0 \/ rng.end = 0
      THEN [ok |-> FALSE, tree |-> t, prng_seed |-> seed, diff |-> diff,
            calls |-> calls]
      ELSE LET type == io[rng.start].value.out
               old_data == io[rng.start].value.metadata
               new_data == RegionData(old_data.stack_idx, mem_tag)
               end == MIN2(from + sz, io[rng.end].key)
               calls1 == Append(calls, <<from, end>>)
           IN  CHOOSE res \in
                 {IF end < from + sz
                  THEN set_tag(r.tree, r.prng_seed, end, sz - (end - from),
                               mem_tag, r.diff, calls1)
                  ELSE [ok |-> TRUE, tree |-> r.tree, prng_seed |-> r.prng_seed,
                        diff |-> r.diff, calls |-> calls1] :
                    r \in {[x EXCEPT !.diff = apply(diff, @)] :
                             x \in {register_mapping(t, seed, from, end, type,
                                                     new_data, FALSE)}}}
                 : TRUE

\* ------------------------------------------------------------------ state
VARIABLES
  tree,       \* TreapCHeap::tree, the root of the treap of the VMATree
  prng_seed,  \* TreapCHeap::prng_seed
  summary,    \* the tracker's counters: every returned SummaryDiff folded in
  nops,       \* number of recording operations performed
  script,     \* the scripted scenario being run ([name, ops]), or no script
  last,       \* the last operation, what it returned and the state before it
  pc,         \* per thread: the next operation of its program and where it is
  lock,       \* the holder of the tracker lock, or NoThread
  pending,    \* per thread: the SummaryDiff returned and not yet folded in
  snapshot,   \* the last snapshot a reader took of the counters
  crashed,    \* a null pointer from the allocator was written through
  stack_chunks,     \* NativeCallStackStorage::stack_chunks
  is_detailed_mode, \* NativeCallStackStorage::is_detailed_mode
  pushes,           \* every push so far: the stack and the StackIndex returned
  names,            \* MemTagNameTable::names, the character buffer
  tag_to_name,      \* MemTagNameTable::tag_to_name
  entries,          \* NameToTagTable::entries
  table,            \* NameToTagTable::table, the bucket heads
  made,             \* every registration so far: the name and the tag returned
  next_tag,         \* the tag MallocMemorySummary::new_tag hands out next
  probe,            \* the last call made on a treap, with what it returned
  twin,             \* the same tree built from another seed, run in step
  buffer,           \* CircularMapping::buffer, byte by byte
  _head,            \* CircularStringBuffer::_head
  _tail,            \* CircularStringBuffer::_tail
  _stalling_enabled, \* CircularStringBuffer::_stalling_enabled
  _stalled_message, \* CircularStringBuffer::_stalled_message
  sems,             \* the counts of _flush_sem and _stalling_sem
  _producer_lock,   \* the holder of _producer_lock, or NoThread
  at,               \* per thread of the log: where it is, with its locals
  journal           \* what enqueue accepted and what dequeue returned, in order

threadVars == <<pc, lock, pending, snapshot>>

storageVars == <<stack_chunks, is_detailed_mode, pushes>>

tableVars == <<names, tag_to_name, entries, table, made, next_tag>>

pureVars == <<probe, twin>>

bufVars ==
  <<buffer, _head, _tail, _stalling_enabled, _stalled_message, sems,
    _producer_lock, at, journal>>

libVars == <<storageVars, tableVars, pureVars, bufVars>>

vars ==
  <<tree, prng_seed, summary, nops, script, last, threadVars, crashed, libVars>>

treeVars_but_pc ==
  <<tree, prng_seed, summary, nops, script, last, lock, pending, snapshot,
    crashed>>

treeVars ==
  <<tree, prng_seed, summary, nops, script, last, threadVars, crashed>>

Tags == 1..NumTags
Stacks == 1..NumStacks

MaxOf(a, b) == IF a > b THEN a ELSE b
AllPositions == 0..MaxOf(MaxPos, ScenPos)

\* The state of position p when the tree is read as a piecewise-constant
\* function: out and metadata of the last node in key order with key <= p,
\* Released with the empty metadata when there is none.
StateAt(t, p) ==
  LET io == InOrder(t)
      le == {i \in 1..Len(io) : io[i].key <= p}
  IN  IF le = {} THEN [type |-> Released, data |-> METADATA]
      ELSE LET i == CHOOSE i \in le : \A j \in le : j <= i
           IN  [type |-> io[i].value.out, data |-> io[i].value.metadata]

StateFn(t) == [p \in AllPositions |-> StateAt(t, p)]

\* An operation of the recording interface on the range [A, B).
Op(kind, A, B, mem_tag, stack) ==
  [kind |-> kind, A |-> A, B |-> B, mem_tag |-> mem_tag, stack |-> stack]

\* What the operation does to the tree: the result of the entry point.
Result(t, seed, op) ==
  IF op.kind = "reserve"
  THEN reserve_mapping(t, seed, op.A, op.B - op.A, RegionData(op.stack, op.mem_tag))
  ELSE IF op.kind = "commit"
  THEN commit_region(t, seed, op.A, op.B - op.A, op.stack)
  ELSE IF op.kind = "uncommit"
  THEN uncommit_region(t, seed, op.A, op.B - op.A)
  ELSE IF op.kind = "release"
  THEN release_mapping(t, seed, op.A, op.B - op.A)
  ELSE set_tag(t, seed, op.A, op.B - op.A, op.mem_tag, SummaryDiff(0, 0), <<>>)

NoScript == [name |-> "none", ops |-> <<>>]

\* The operation may be performed now: any operation while fewer than MaxOps
\* were performed when no script runs, the next operation of the script
\* otherwise.
MayPerform(op) ==
  IF script = NoScript THEN nops < MaxOps
  ELSE nops < Len(script.ops) /\ op = script.ops[nops + 1]

\* The entry point is called, and the tracker folds the returned diff into
\* its counters.
Perform(op) ==
  /\ MayPerform(op)
  /\ ~crashed
  /\ \E r \in {Result(tree, prng_seed, op)} :
       /\ op.kind = "set_tag" => r.ok
       /\ tree' = r.tree
       /\ prng_seed' = r.prng_seed
       /\ summary' = apply(summary, r.diff)
       /\ nops' = nops + 1
       /\ last' = [op |-> op, diff |-> r.diff, before |-> StateFn(tree),
                   calls |-> IF op.kind = "set_tag" THEN r.calls ELSE <<>>,
                   null_alloc |-> FALSE]
  /\ UNCHANGED <<script, threadVars, crashed, libVars>>

NoOp == Op("none", 0, 0, mtNone, 0)

InitCommon ==
  /\ tree = nullptr
  /\ prng_seed = DefaultSeed
  /\ summary = SummaryDiff(0, 0)
  /\ nops = 0
  /\ last = [op |-> NoOp, diff |-> SummaryDiff(0, 0),
             before |-> StateFn(nullptr), calls |-> <<>>,
             null_alloc |-> FALSE]

\* ------------------------------------------------- NativeCallStackStorage
\* A NativeCallStack is a number of 0..NumCallStacks, 0 being the empty stack.
EmptyStack == 0
CallStacks == 0..NumCallStacks

is_empty(stack) == stack = EmptyStack

\* NativeCallStack::calculate_hash.
calculate_hash(stack) == stack

\* StackIndex(chunk, index): two uint16_t.
StackIndex(chunk, index) ==
  [chunk |-> chunk % 65536, index |-> index % 65536]

\* new NCSChunk(): every slot holds a default-constructed, empty stack.
NCSChunk == [index \in 0..(static_chunk_size - 1) |-> EmptyStack]

\* The loop of push over the chunks, from chunk i (counted from 0).
RECURSIVE push_scan(_, _, _, _)
push_scan(chunks, i, index, stack) ==
  IF i < Len(chunks)
  THEN LET found_stack == chunks[i + 1][index] IN
       IF is_empty(found_stack)
       THEN [stack_chunks |-> [chunks EXCEPT ![i + 1][index] = stack],
             idx |-> StackIndex(i, index)]
       ELSE IF found_stack = stack
       THEN [stack_chunks |-> chunks, idx |-> StackIndex(i, index)]
       ELSE push_scan(chunks, i + 1, index, stack)
  ELSE [stack_chunks |-> Append(chunks, [NCSChunk EXCEPT ![index] = stack]),
        idx |-> StackIndex(Len(chunks), index)]

\* push without the test of the mode.
push_any_mode(chunks, detailed, stack) ==
  push_scan(chunks, 0, calculate_hash(stack) % static_chunk_size, stack)

\* NativeCallStackStorage::push
push(chunks, detailed, stack) ==
  IF ~detailed
  THEN [stack_chunks |-> chunks, idx |-> StackIndex(0, 0)]
  ELSE push_scan(chunks, 0, calculate_hash(stack) % static_chunk_size, stack)

\* NativeCallStackStorage::get
get(chunks, si) == chunks[si.chunk + 1][si.index]

\* NativeCallStackStorage(is_detailed_mode): one chunk is pushed.
InitStorage ==
  /\ stack_chunks = <<NCSChunk>>
  /\ is_detailed_mode \in BOOLEAN
  /\ pushes = <<>>

\* -------------------------------------------------------- MemTagNameTable
\* A name is the sequence of its characters; "0" is <<48>>, "30" is <<51, 48>>.
Names == {<<48>>, <<49>>, <<50>>, <<51>>, <<51, 48>>, <<48, 50>>}

Nil == -1
nr_of_buckets == 4096

\* (MemTag)x: the tag integer type holds MemTagValues values.
MemTag(x) == x % MemTagValues

\* NameToTagTable::string_hash, the sum over the characters from the k-th on.
RECURSIVE hash_sum(_, _)
hash_sum(t, k) ==
  IF k >= Len(t) THEN 0
  ELSE LET c == (t[k + 1] * 2 + 1) % 256
       IN  c + c * 2 ^ (k % 6) + hash_sum(t, k + 1)

string_hash(t) == (hash_sum(t, 0) + 261) \div 2

\* The zero-delimited string that starts at offset i of the buffer.
RECURSIVE adr_at(_, _)
adr_at(buf, i) ==
  IF i >= Len(buf) \/ buf[i + 1] = 0 THEN <<>>
  ELSE <<buf[i + 1]>> \o adr_at(buf, i + 1)

\* table[bucket]: the buckets never written hold Nil.
bucket_head(tbl, bucket) ==
  IF bucket \in DOMAIN tbl THEN tbl[bucket] ELSE Nil

\* names.at_grow(i + name_len, 0) and the memcpy of the name to offset i.
grow_copy(buf, name) == buf \o name \o <<0>>

\* NameToTagTable::put. The loop over the chain never moves to e.next: with a
\* first entry of another name it does not end (hung).
NameToTagTable_put(t, tag, name) ==
  LET bucket == string_hash(name) % nr_of_buckets
      link == bucket_head(t.table, bucket)
  IN  IF link # Nil /\ adr_at(t.names, t.entries[link + 1].name) = name
      THEN [t EXCEPT !.ret = t.entries[link + 1].name]
      ELSE IF link # Nil
      THEN [t EXCEPT !.hung = TRUE]
      ELSE LET i == Len(t.names) IN
           [t EXCEPT !.names = grow_copy(t.names, name),
                     !.entries = Append(t.entries,
                                        [name |-> i, tag |-> MemTag(tag),
                                         next |-> link]),
                     !.table = [b \in DOMAIN t.table \cup {bucket} |->
                                  IF b = bucket THEN Len(t.entries)
                                  ELSE t.table[b]],
                     !.ret = i]

\* NameToTagTable::get, with the same loop.
NameToTagTable_get(t, name) ==
  LET bucket == string_hash(name) % nr_of_buckets
      link == bucket_head(t.table, bucket)
  IN  IF link # Nil /\ adr_at(t.names, t.entries[link + 1].name) = name
      THEN [t EXCEPT !.ret = t.entries[link + 1].tag]
      ELSE IF link # Nil
      THEN [t EXCEPT !.hung = TRUE]
      ELSE [t EXCEPT !.ret = mtNone]

\* tag_to_name.at_grow(tag) = name_ref: the array grows to tag + 1 entries.
at_grow_set(arr, tag, name_ref) ==
  [k \in 1..MaxOf(Len(arr), tag + 1) |->
     IF k = tag + 1 THEN name_ref
     ELSE IF k <= Len(arr) THEN arr[k] ELSE 0]

\* MemTagNameTable::put_when_absent
put_when_absent(t, tag, name) ==
  IF Len(t.tag_to_name) <= tag
  THEN CHOOSE r \in
         {IF p.hung THEN p
          ELSE [p EXCEPT !.tag_to_name = at_grow_set(p.tag_to_name, tag, p.ret)] :
            p \in {NameToTagTable_put(t, tag, name)}} : TRUE
  ELSE t

\* MemTagNameTable::make_tag
make_tag(t, name) ==
  CHOOSE r \in
    {IF g.hung THEN g
     ELSE IF g.ret = mtNone
     THEN CHOOSE q \in
            {IF p.hung THEN p ELSE [p EXCEPT !.ret = MemTag(Len(g.tag_to_name))] :
               p \in {put_when_absent(g, Len(g.tag_to_name), name)}} : TRUE
     ELSE g :
       g \in {NameToTagTable_get(t, name)}} : TRUE

\* MemTagNameTable::get(tag): the name at the offset tag_to_name holds.
get_name(t, tag) == adr_at(t.names, t.tag_to_name[tag + 1])

\* The table as one value, for the operators above.
Table ==
  [names |-> names, tag_to_name |-> tag_to_name, entries |-> entries,
   table |-> table, ret |-> 0, hung |-> FALSE]

\* MemTagNameTable(): every old-style tag is given the offset 0.
InitTable ==
  /\ names = <<>>
  /\ tag_to_name = [k \in 1..mt_number_of_tags |-> 0]
  /\ entries = <<>>
  /\ table = <<>>
  /\ made = <<>>
  /\ next_tag = mt_number_of_tags

NoThread == 0
NoSnapshot == [taken |-> FALSE]

\* The call stack storage and the tag name table as constructed.
\* --------------------------------------------------- CircularStringBuffer
\* Sizes are in bytes, scaled down: sizeof(Message) and alignof(Message).
sizeof_Message == 2

alignof_Message == 2

align_up(sz, alignment) == ((sz + alignment - 1) \div alignment) * alignment

calculate_bytes_needed(sz) == align_up(sz, alignof_Message)

\* allocated_bytes and available_bytes, of the head and tail loaded.
allocated_bytes(h, t) == IF h <= t THEN t - h ELSE BufSize - (h - t)

available_bytes(h, t) == BufSize - allocated_bytes(h, t)

\* CircularMapping::write_bytes and read_bytes: two memcpy each.
write_bytes(buf, pos, bytes) ==
  LET part1_size == MIN2(Len(bytes), BufSize - pos)
      part2_size == Len(bytes) - part1_size
  IN  [i \in 0..(BufSize - 1) |->
         IF pos <= i /\ i < pos + part1_size THEN bytes[i - pos + 1]
         ELSE IF i < part2_size THEN bytes[part1_size + i + 1]
         ELSE buf[i]]

read_bytes(buf, pos, size) ==
  LET part1_size == MIN2(size, BufSize - pos)
  IN  [j \in 1..size |->
         IF j <= part1_size THEN buf[pos + j - 1] ELSE buf[j - part1_size - 1]]

\* A byte: the message it was written for, its place in the envelope (hdr) or
\* in the string, the fields of the envelope, and whether it is the NUL.
Byte(id, k, hdr, size, output, nul) ==
  [id |-> id, k |-> k, hdr |-> hdr, size |-> size, output |-> output,
   nul |-> nul]

\* Message{required_memory, output, decorations} as bytes, and the string of
\* size bytes with its NUL; output 0 is nullptr.
MessageBytes(m) ==
  [j \in 1..sizeof_Message |->
     Byte(m.id, j, TRUE, calculate_bytes_needed(m.size), m.output, FALSE)]

StringBytes(m) ==
  [j \in 1..m.size |-> Byte(m.id, j, FALSE, 0, 0, j = m.size)]

\* The string up to its NUL.
c_str(bytes) ==
  LET nuls == {j \in 1..Len(bytes) : bytes[j].nul}
  IN  IF nuls = {} THEN bytes
      ELSE SubSeq(bytes, 1, CHOOSE j \in nuls : \A i \in nuls : j <= i)

Producers == 1..MaxProducers

Consumer == 0

Idle == [pc |-> "idle", flush |-> FALSE]

\* CircularStringBuffer::CircularStringBuffer
InitBuffer(stalling_enabled) ==
  /\ buffer = [i \in 0..(BufSize - 1) |-> Byte(0, 0, FALSE, 0, 0, TRUE)]
  /\ _head = 0
  /\ _tail = 0
  /\ _stalling_enabled = stalling_enabled
  /\ _stalled_message = <<>>
  /\ sems = [flush |-> 0, stalling |-> 0]
  /\ _producer_lock = 0
  /\ at = [th \in {Consumer} \cup Producers |-> Idle]
  /\ journal = [started |-> 0, accepted |-> <<>>, delivered |-> <<>>]

NoProbe == [fn |-> "none"]

InitLib ==
  /\ InitStorage
  /\ is_detailed_mode
  /\ InitTable
  /\ InitBuffer(FALSE)
  /\ probe = NoProbe
  /\ twin = NoProbe

\* No threads are modelled: the calls come one after the other.
InitIdle ==
  /\ pc = <<>>
  /\ lock = NoThread
  /\ pending = <<>>
  /\ snapshot = NoSnapshot
  /\ crashed = FALSE

InitSequential == InitIdle /\ InitLib

Init == InitCommon /\ InitSequential /\ script = NoScript

Ranges(n) == {r \in (0..n) \X (0..n) : r[1] < r[2]}
SubRanges(R) == {r \in (R[1]..R[2]) \X (R[1]..R[2]) : r[1] < r[2]}

Reserve ==
  \E r \in Ranges(MaxOf(MaxPos, ScenPos)), mem_tag \in Tags, stack \in Stacks :
    /\ script = NoScript => r[2] <= MaxPos
    /\ Perform(Op("reserve", r[1], r[2], mem_tag, stack))

Commit ==
  \E r \in Ranges(MaxOf(MaxPos, ScenPos)), stack \in Stacks :
    /\ script = NoScript => r[2] <= MaxPos
    /\ Perform(Op("commit", r[1], r[2], mtNone, stack))

Uncommit ==
  \E r \in Ranges(MaxOf(MaxPos, ScenPos)) :
    /\ script = NoScript => r[2] <= MaxPos
    /\ Perform(Op("uncommit", r[1], r[2], mtNone, 0))

Release ==
  \E r \in Ranges(MaxOf(MaxPos, ScenPos)) :
    /\ script = NoScript => r[2] <= MaxPos
    /\ Perform(Op("release", r[1], r[2], mtNone, 0))

SetTag ==
  \E r \in Ranges(MaxOf(MaxPos, ScenPos)), mem_tag \in Tags :
    /\ script = NoScript => r[2] <= MaxPos
    /\ Perform(Op("set_tag", r[1], r[2], mem_tag, 0))

Next == Reserve \/ Commit \/ Uncommit \/ Release \/ SetTag

Spec == Init /\ [][Next]_vars

\* ------------------------------------------------------ scripted scenarios
\* reserve(R); release(R)
ScriptReserveRelease ==
  {[name |-> "reserve_release",
    ops |-> <<Op("reserve", R[1], R[2], mem_tag, stack),
              Op("release", R[1], R[2], mtNone, 0)>>] :
     R \in Ranges(ScenPos), mem_tag \in Tags, stack \in Stacks}

\* reserve(R); commit(C); uncommit(C); release(R) with C inside R
ScriptCommitUncommit ==
  UNION {{[name |-> "commit_uncommit",
           ops |-> <<Op("reserve", R[1], R[2], mem_tag, s1),
                     Op("commit", C[1], C[2], mtNone, s2),
                     Op("uncommit", C[1], C[2], mtNone, 0),
                     Op("release", R[1], R[2], mtNone, 0)>>] :
            C \in SubRanges(R), mem_tag \in Tags, s1 \in Stacks, s2 \in Stacks} :
         R \in Ranges(ScenPos)}

\* reserve([a, d)); set_tag([b, c)) with a < b < c < d
ScriptTagRewrite ==
  UNION {{[name |-> "tag_rewrite",
           ops |-> <<Op("reserve", R[1], R[2], x[2], x[4]),
                     Op("set_tag", x[1][1], x[1][2], x[3], 0)>>] :
            x \in {y \in SubRanges(R) \X Tags \X Tags \X Stacks :
                     R[1] < y[1][1] /\ y[1][2] < R[2] /\ y[2] # y[3]}} :
         R \in Ranges(ScenPos)}

\* reserve([a, b)); reserve([b, c)) with identical metadata
ScriptAdjacentReserve ==
  {[name |-> "adjacent_reserve",
    ops |-> <<Op("reserve", x[1], x[2], mem_tag, stack),
              Op("reserve", x[2], x[3], mem_tag, stack)>>] :
     x \in {y \in (0..ScenPos) \X (0..ScenPos) \X (0..ScenPos) :
              y[1] < y[2] /\ y[2] < y[3]},
     mem_tag \in Tags, stack \in Stacks}

\* reserve([a, b), S1, T); commit([a, m), S2) with a < m < b
ScriptReserveCommit ==
  {[name |-> "reserve_commit",
    ops |-> <<Op("reserve", x[1], x[3], mem_tag, s1),
              Op("commit", x[1], x[2], mtNone, s2)>>] :
     x \in {y \in (0..ScenPos) \X (0..ScenPos) \X (0..ScenPos) :
              y[1] < y[2] /\ y[2] < y[3]},
     mem_tag \in Tags, s1 \in Stacks, s2 \in Stacks}

Scripts ==
  ScriptReserveRelease \cup ScriptCommitUncommit \cup ScriptTagRewrite
  \cup ScriptAdjacentReserve \cup ScriptReserveCommit

ScriptDone == script # NoScript /\ nops = Len(script.ops)

InitScenario == InitCommon /\ InitSequential /\ script \in Scripts

SpecScenario == InitScenario /\ [][Next]_vars

\* An entry point called with size 0: register_mapping(A, A, state, metadata).
EmptyRange ==
  \E A \in 0..MaxPos, kind \in {"reserve", "commit", "uncommit", "release"},
     mem_tag \in Tags, stack \in Stacks :
    /\ script = NoScript
    /\ Perform(Op(kind, A, A,
                  IF kind = "reserve" THEN mem_tag ELSE mtNone,
                  IF kind \in {"reserve", "commit"} THEN stack ELSE 0))

\* Reservations and releases build the trees the empty range is registered on.
NextEmptyRange == Reserve \/ Release \/ EmptyRange

SpecEmptyRange == Init /\ [][NextEmptyRange]_vars

\* ------------------------------------------------------------------ facade
\* VirtualMemoryView::commit_memory: the stack is pushed, the metadata is
\* VirtualMemoryData(idx) with the default flag mtNone, and the range is
\* handed to reserve_mapping.
commit_memory(t, seed, base_addr, size, stack) ==
  reserve_mapping(t, seed, base_addr, size, RegionData(stack, mtNone))

CommitMemory ==
  \E r \in Ranges(MaxPos), stack \in Stacks :
    /\ script = NoScript
    /\ nops < MaxOps
    /\ ~crashed
    /\ \E res \in {commit_memory(tree, prng_seed, r[1], r[2] - r[1], stack)} :
         /\ tree' = res.tree
         /\ prng_seed' = res.prng_seed
         /\ summary' = apply(summary, res.diff)
         /\ nops' = nops + 1
         /\ last' = [op |-> Op("commit_memory", r[1], r[2], mtNone, stack),
                     diff |-> res.diff, before |-> StateFn(tree),
                     calls |-> <<>>, null_alloc |-> FALSE]
    /\ UNCHANGED <<script, threadVars, crashed, libVars>>

\* Reservations and releases, and commits through the facade.
NextView == Reserve \/ Release \/ CommitMemory

SpecView == Init /\ [][NextView]_vars

\* ----------------------------------------------------- allocation failure
\* TreapCHeap::upsert when os::malloc returns null and the constructor's
\* stores through the null pointer go unnoticed: make_node returns nullptr,
\* and the merges put back the nodes that were there.
upsert_null(head, k, v, seed) ==
  CHOOSE r \in
    {LET found == find(sp.left, <<>>, k) IN
     IF found # NullPtr
     THEN [tree |-> merge(SetValue(sp.left, PathOf(found), v), sp.right),
           prng_seed |-> seed]
     ELSE CHOOSE q \in
            {[tree |-> merge(m, sp.right), prng_seed |-> rand] :
               m \in {merge(sp.left, nullptr)}} : TRUE
     : sp \in {split(head, k, LEQ)}, rand \in {prng_next(seed)}} : TRUE

\* The handling of A with that allocator. The two branches of handle_A that
\* call upsert are the ones that draw a priority, and the key is not in the
\* tree then, so the value upsert is given plays no part.
handle_A_null(t, seed, A, state, metadata, use_tag_inplace) ==
  CHOOSE r \in
    {IF a.prng_seed = seed THEN a
     ELSE CHOOSE q \in
            {[tree |-> u.tree, prng_seed |-> u.prng_seed, stB |-> a.stB] :
               u \in {upsert_null(t, A, State(Released, state, metadata), seed)}}
            : TRUE
     : a \in {handle_A(t, seed, A, state, metadata, use_tag_inplace)}} : TRUE

insert_B_null(v, seed, B) ==
  IF v.B_needs_insert
     /\ (~is_noop(v.stB) \/ ~EquivalentMetadata(v.stB.metadata, METADATA))
  THEN upsert_null(v.tree, B, v.stB, seed)
  ELSE [tree |-> v.tree, prng_seed |-> seed]

\* register_mapping when every os::malloc of the call returns null.
register_mapping_null(t, seed, A, B, state, metadata, use_tag_inplace) ==
  CHOOSE r \in
    {CHOOSE q \in
       {CHOOSE p \in
          {finish(b, v.to_be_deleted, A, B, state) :
             b \in {insert_B_null(v, a.prng_seed, B)}} : TRUE
        : v \in {visit_loop([tree |-> a.tree, to_visit |-> << <<>> >>,
                             stB |-> a.stB, B_needs_insert |-> TRUE,
                             to_be_deleted |-> <<>>, break |-> FALSE],
                            A, B, use_tag_inplace)}} : TRUE
     : a \in {handle_A_null(t, seed, A, state, metadata, use_tag_inplace)}} : TRUE

\* A reservation during which os::malloc returns null. The call writes through
\* the null pointer: either the write traps and the call never returns, or it
\* goes unnoticed and the call goes on without the node.
AllocFail ==
  \E r \in Ranges(MaxPos), mem_tag \in Tags, stack \in Stacks, traps \in BOOLEAN :
    /\ script = NoScript
    /\ nops < MaxOps
    /\ ~crashed
    /\ \E n \in {register_mapping_null(tree, prng_seed, r[1], r[2], Reserved,
                                       RegionData(stack, mem_tag), FALSE)} :
         \* the call asks the allocator for a node
         /\ n.prng_seed # prng_seed
         /\ nops' = nops + 1
         /\ crashed' = traps
         /\ IF traps
            THEN /\ last' = [op |-> Op("reserve", r[1], r[2], mem_tag, stack),
                             diff |-> SummaryDiff(0, 0),
                             before |-> StateFn(tree), calls |-> <<>>,
                             null_alloc |-> TRUE]
                 /\ UNCHANGED <<tree, prng_seed, summary>>
            ELSE /\ tree' = n.tree
                 /\ prng_seed' = n.prng_seed
                 /\ summary' = apply(summary, n.diff)
                 /\ last' = [op |-> Op("reserve", r[1], r[2], mem_tag, stack),
                             diff |-> n.diff, before |-> StateFn(tree),
                             calls |-> <<>>, null_alloc |-> TRUE]
    /\ UNCHANGED <<script, threadVars, libVars>>

\* Reservations and releases build the trees the failing call is made on.
NextAllocFail == Reserve \/ Release \/ AllocFail

SpecAllocFail == Init /\ [][NextAllocFail]_vars

\* ---------------------------------------------------- call stack storage
\* A push of any stack, the empty stack included; what it returned is kept.
Push ==
  \E stack \in CallStacks :
    /\ Len(pushes) < MaxPushes
    /\ \E r \in {push(stack_chunks, is_detailed_mode, stack)} :
         /\ stack_chunks' = r.stack_chunks
         /\ pushes' = Append(pushes,
                             [stack |-> stack, idx |-> r.idx,
                              stored |-> r.stack_chunks # stack_chunks])
    /\ UNCHANGED <<is_detailed_mode, treeVars, tableVars, pureVars, bufVars>>

InitPushes ==
  /\ InitCommon
  /\ script = NoScript
  /\ InitIdle
  /\ InitStorage
  /\ InitTable
  /\ InitBuffer(FALSE)
  /\ probe = NoProbe
  /\ twin = NoProbe

SpecStorage == InitPushes /\ [][Push]_vars

\* --------------------------------------------------------- tag name table
\* A call of the table did not return.
Hung == \E i \in 1..Len(made) : made[i].hung

\* MemTagNameTable::Instance::make_tag of any name; what it returned is kept.
MakeTag ==
  \E name \in Names :
    /\ Len(made) < MaxMade
    /\ ~Hung
    /\ \E r \in {make_tag(Table, name)} :
         /\ names' = r.names
         /\ tag_to_name' = r.tag_to_name
         /\ entries' = r.entries
         /\ table' = r.table
         /\ made' = Append(made,
                           [name |-> name, tag |-> r.ret, hung |-> r.hung,
                            added |-> (r.entries # entries
                                       \/ r.tag_to_name # tag_to_name)])
    /\ UNCHANGED <<next_tag, storageVars, treeVars, pureVars, bufVars>>

SpecTable == Init /\ [][MakeTag]_vars

\* ----------------------------------------------- concurrent registration
\* Each thread registers one name, through MemTagNameTable::Instance::make_tag
\* or through the constructor of NamedMalloc.
InitNamed ==
  /\ InitCommon
  /\ script = NoScript
  /\ lock = NoThread
  /\ pending = <<>>
  /\ snapshot = NoSnapshot
  /\ crashed = FALSE
  /\ InitLib
  /\ pc \in [1..MaxThreads ->
               [name : Names, path : {"make_tag", "NamedMalloc"},
                at : {"start"}, tag : {Nil}]]

\* The table after a call that returned.
SetTable(r) ==
  /\ names' = r.names
  /\ tag_to_name' = r.tag_to_name
  /\ entries' = r.entries
  /\ table' = r.table

\* Instance::make_tag: the whole of make_tag inside one ThreadCritical.
InstanceMakeTag ==
  \E th \in DOMAIN pc :
    /\ pc[th].path = "make_tag"
    /\ pc[th].at = "start"
    /\ \E r \in {make_tag(Table, pc[th].name)} :
         /\ SetTable(r)
         /\ pc' = [pc EXCEPT ![th].at = IF r.hung THEN "hung" ELSE "done",
                             ![th].tag = IF r.hung THEN Nil ELSE r.ret]
    /\ UNCHANGED <<made, next_tag, storageVars, treeVars_but_pc, pureVars, bufVars>>

\* NamedMalloc: Instance::get(name, &found).
NamedGet ==
  \E th \in DOMAIN pc :
    /\ pc[th].path = "NamedMalloc"
    /\ pc[th].at = "start"
    /\ \E g \in {NameToTagTable_get(Table, pc[th].name)} :
         pc' = [pc EXCEPT ![th].at = IF g.hung THEN "hung"
                                     ELSE IF g.ret # mtNone THEN "done"
                                     ELSE "looked",
                          ![th].tag = IF ~g.hung /\ g.ret # mtNone
                                      THEN g.ret ELSE Nil]
    /\ UNCHANGED <<tableVars, storageVars, treeVars_but_pc, pureVars, bufVars>>

\* NamedMalloc: MallocMemorySummary::new_tag(), a tag that nobody has yet.
NamedNewTag ==
  \E th \in DOMAIN pc :
    /\ pc[th].at = "looked"
    /\ \E fresh \in {MaxOf(next_tag, Len(tag_to_name))} :
         /\ pc' = [pc EXCEPT ![th].at = "tagged", ![th].tag = MemTag(fresh)]
         /\ next_tag' = fresh + 1
    /\ UNCHANGED <<names, tag_to_name, entries, table, made, storageVars,
                   treeVars_but_pc, pureVars, bufVars>>

\* NamedMalloc: Instance::put(new_tag, name).
NamedPut ==
  \E th \in DOMAIN pc :
    /\ pc[th].at = "tagged"
    /\ \E r \in {put_when_absent(Table, pc[th].tag, pc[th].name)} :
         /\ SetTable(r)
         /\ pc' = [pc EXCEPT ![th].at = IF r.hung THEN "hung" ELSE "done"]
    /\ UNCHANGED <<made, next_tag, storageVars, treeVars_but_pc, pureVars, bufVars>>

NextNamed == InstanceMakeTag \/ NamedGet \/ NamedNewTag \/ NamedPut

SpecNamed == InitNamed /\ [][NextNamed]_vars

\* Every thread has its tag.
AllRegistered == \A th \in DOMAIN pc : pc[th].at = "done"

\* ------------------------------------------------------- calls on a treap
\* VMATree::visit: the keys of the nodes f is called on, in the order of the
\* calls. to_visit holds subtrees, its top is its last element.
RECURSIVE visit(_, _, _, _)
visit(to_visit, from, to, called) ==
  IF to_visit = <<>> THEN called
  ELSE LET head == to_visit[Len(to_visit)]
           rest == SubSeq(to_visit, 1, Len(to_visit) - 1)
       IN  IF head.isnull THEN visit(rest, from, to, called)
           ELSE IF addr_cmp(head.key, to) >= 0 THEN called
           ELSE IF addr_cmp(head.key, from) >= 0
           THEN visit(rest \o <<head.left, head.right>>, from, to,
                      Append(called, head.key))
           ELSE visit(Append(rest, head.right), from, to, called)

\* The treap TreapCHeap builds when the keys of seq are upserted one by one.
RECURSIVE BuildTreap(_, _, _)
BuildTreap(seq, t, seed) ==
  IF seq = <<>> THEN [tree |-> t, prng_seed |-> seed]
  ELSE CHOOSE r \in
         {BuildTreap(Tail(seq), u.tree, u.prng_seed) :
            u \in {upsert(t, Head(seq), "old", seed)}} : TRUE

\* Sequences of different keys, of every length.
KeySeqs ==
  UNION {{q \in [1..n -> 0..MaxPos] : \A i, j \in 1..n : i # j => q[i] # q[j]} :
           n \in 0..(MaxPos + 1)}

\* A treap of every shape over every set of keys.
InitTreap ==
  /\ \E seq \in KeySeqs :
       \E b \in {BuildTreap(seq, nullptr, DefaultSeed)} :
         tree = b.tree /\ prng_seed = b.prng_seed
  /\ summary = SummaryDiff(0, 0)
  /\ nops = 0
  /\ last = [op |-> NoOp]
  /\ script = NoScript
  /\ InitIdle
  /\ InitLib

\* One call of fn on the treap; the treap before the call is kept.
Call(fn, args, ret, after) ==
  /\ probe' = [fn |-> fn, args |-> args, before |-> tree, ret |-> ret]
  /\ tree' = after.tree
  /\ prng_seed' = after.prng_seed
  /\ UNCHANGED <<summary, nops, script, last, threadVars, crashed, storageVars,
                 tableVars, twin, bufVars>>

Find ==
  \E k \in 0..MaxPos :
    /\ probe = NoProbe
    /\ Call("find", <<k>>, find(tree, <<>>, k),
            [tree |-> tree, prng_seed |-> prng_seed])

LeSearch ==
  \E A \in 0..MaxPos :
    /\ probe = NoProbe
    /\ Call("le_search", <<A>>, le_search(tree, <<>>, A, NullPtr),
            [tree |-> tree, prng_seed |-> prng_seed])

Visit ==
  \E from \in 0..MaxPos, to \in 0..(MaxPos + 1) :
    /\ probe = NoProbe
    /\ Call("visit", <<from, to>>, visit(<<tree>>, from, to, <<>>),
            [tree |-> tree, prng_seed |-> prng_seed])

Upsert ==
  \E k \in 0..MaxPos :
    /\ probe = NoProbe
    /\ \E u \in {upsert(tree, k, "new", prng_seed)} : Call("upsert", <<k>>, 0, u)

Remove ==
  \E k \in 0..MaxPos :
    /\ probe = NoProbe
    /\ Call("remove", <<k>>, 0,
            [tree |-> remove(tree, k), prng_seed |-> prng_seed])

NextTreap == Find \/ LeSearch \/ Visit \/ Upsert \/ Remove

SpecTreap == InitTreap /\ [][NextTreap]_vars

\* --------------------------------------------------- set_tag, any range
\* VMATree::set_tag on any range: when the enclosing range is missing the
\* assert fails (or, without asserts, a null pointer is read) and the run is
\* over.
SetTagCall ==
  \E r \in Ranges(MaxPos), mem_tag \in Tags :
    /\ nops < MaxOps
    /\ ~crashed
    /\ \E op \in {Op("set_tag", r[1], r[2], mem_tag, 0)} :
       \E res \in {Result(tree, prng_seed, op)} :
         /\ probe' = [fn |-> "set_tag", from |-> r[1], sz |-> r[2] - r[1],
                      ok |-> res.ok, calls |-> res.calls,
                      before |-> StateFn(tree), treap |-> tree]
         /\ crashed' = ~res.ok
         /\ IF res.ok
            THEN /\ tree' = res.tree
                 /\ prng_seed' = res.prng_seed
                 /\ summary' = apply(summary, res.diff)
                 /\ nops' = nops + 1
                 /\ last' = [op |-> op, diff |-> res.diff,
                             before |-> StateFn(tree), calls |-> res.calls,
                             null_alloc |-> FALSE]
            ELSE UNCHANGED <<tree, prng_seed, summary, nops, last>>
    /\ UNCHANGED <<script, threadVars, storageVars, tableVars, twin, bufVars>>

NextSetTag == Reserve \/ Commit \/ Uncommit \/ Release \/ SetTagCall

SpecSetTag == Init /\ [][NextSetTag]_vars

\* ------------------------------------------------- two trees, two seeds
\* Seeds of the second tree: _prng_seed is a constructor argument.
MaxTwinOps == 2

TwinSeeds == {<<1, 0, 0, 0>>, <<4321, 0, 0, 0>>}

InitTwin ==
  /\ InitCommon
  /\ script = NoScript
  /\ InitIdle
  /\ InitStorage /\ is_detailed_mode /\ InitTable
  /\ InitBuffer(FALSE)
  /\ probe = NoProbe
  /\ \E seed \in TwinSeeds :
       twin = [fn |-> "init", tree |-> nullptr, prng_seed |-> seed]

\* The same register_mapping call on both trees.
RegisterBoth ==
  \E kind \in {"reserve", "commit", "uncommit", "release"},
     r \in Ranges(MaxPos), mem_tag \in Tags, stack \in Stacks :
    /\ nops < MaxTwinOps
    /\ (kind # "reserve" => mem_tag = 1)
    /\ (kind \in {"uncommit", "release"} => stack = 1)
    /\ \E op \in {Op(kind, r[1], r[2], mem_tag, stack)} :
       \E a \in {Result(tree, prng_seed, op)},
          b \in {Result(twin.tree, twin.prng_seed, op)} :
         /\ tree' = a.tree
         /\ prng_seed' = a.prng_seed
         /\ summary' = apply(summary, a.diff)
         /\ nops' = nops + 1
         /\ last' = [op |-> op, diff |-> a.diff, before |-> StateFn(tree),
                     calls |-> <<>>, null_alloc |-> FALSE]
         /\ twin' = [fn |-> "register_mapping", tree |-> b.tree,
                     prng_seed |-> b.prng_seed, diff |-> b.diff,
                     before |-> twin.tree]
         /\ probe' = [fn |-> "register_mapping", before |-> tree]
    /\ UNCHANGED <<script, threadVars, crashed, storageVars, tableVars, bufVars>>

SpecTwin == InitTwin /\ [][RegisterBoth]_vars

\* ------------------------------------------- producers and the consumer
InitLog ==
  /\ InitCommon
  /\ script = NoScript
  /\ InitIdle
  /\ InitStorage /\ is_detailed_mode /\ InitTable
  /\ probe = NoProbe
  /\ twin = NoProbe
  /\ \E stalling_enabled \in BOOLEAN : InitBuffer(stalling_enabled)

\* Where a producer is when enqueue is over: in flush() it waits for _flush_sem.
AfterEnqueue(flush) ==
  IF flush THEN [pc |-> "flush_wait", flush |-> TRUE] ELSE Idle

\* enqueue under the ProducerLocker, up to the check for memory: the message
\* is counted as dropped, or handed over as the stalled message, or the
\* producer goes on to write it.
enqueue_locked(p, m, flush) ==
  /\ at[p].pc = "idle"
  /\ _producer_lock = NoThread
  /\ journal' = [journal EXCEPT !.started = @ + 1]
  /\ LET required_memory == calculate_bytes_needed(m.size)
         not_enough_memory ==
           available_bytes(_head, _tail)
             < required_memory + sizeof_Message * (IF m.output = 0 THEN 1 ELSE 2)
     IN  IF not_enough_memory
         THEN IF _stalling_enabled
              THEN /\ _stalled_message' = <<m>>
                   /\ _producer_lock' = p
                   /\ at' = [at EXCEPT ![p] = [pc |-> "stall", flush |-> flush]]
              ELSE /\ at' = [at EXCEPT ![p] = AfterEnqueue(flush)]
                   /\ UNCHANGED <<_stalled_message, _producer_lock>>
         ELSE /\ _producer_lock' = p
              /\ at' = [at EXCEPT ![p] =
                          [pc |-> "write", flush |-> flush, msg |-> m]]
              /\ UNCHANGED _stalled_message
  /\ UNCHANGED <<buffer, _head, _tail, _stalling_enabled, sems, treeVars,
                 storageVars, tableVars, pureVars>>

\* enqueue(msg, size, output, decorations) of a string of size bytes, NUL
\* included.
Enqueue ==
  \E p \in Producers, size \in 1..MaxStr :
    /\ journal.started < MaxMsgs
    /\ enqueue_locked(p, [id |-> journal.started + 1, size |-> size,
                          output |-> 1], FALSE)

\* flush(): enqueue("", 0, nullptr, None).
Flush ==
  \E p \in Producers :
    /\ journal.started < MaxMsgs
    /\ enqueue_locked(p, [id |-> journal.started + 1, size |-> 0,
                          output |-> 0], TRUE)

\* The rest of enqueue_locked: the envelope and the string are written and
\* the tail is stored; the ProducerLocker is released.
EnqueueWrite ==
  \E p \in Producers :
    /\ at[p].pc = "write"
    /\ LET m == at[p].msg
           t == (_tail + sizeof_Message) % BufSize
       IN  /\ buffer' = write_bytes(write_bytes(buffer, _tail, MessageBytes(m)),
                                    t, StringBytes(m))
           /\ _tail' = (t + calculate_bytes_needed(m.size)) % BufSize
           /\ journal' = [journal EXCEPT
                            !.accepted = Append(@, [header |-> MessageBytes(m),
                                                    str |-> StringBytes(m)])]
    /\ _producer_lock' = NoThread
    /\ at' = [at EXCEPT ![p] = AfterEnqueue(at[p].flush)]
    /\ UNCHANGED <<_head, _stalling_enabled, _stalled_message, sems, treeVars,
                   storageVars, tableVars, pureVars>>

\* stall() returns once _stalling_sem was signalled.
Stall ==
  \E p \in Producers :
    /\ at[p].pc = "stall"
    /\ sems.stalling > 0
    /\ sems' = [sems EXCEPT !.stalling = @ - 1]
    /\ _producer_lock' = NoThread
    /\ at' = [at EXCEPT ![p] = AfterEnqueue(at[p].flush)]
    /\ UNCHANGED <<buffer, _head, _tail, _stalling_enabled, _stalled_message,
                   journal, treeVars, storageVars, tableVars, pureVars>>

\* flush() returns once _flush_sem was signalled.
FlushReturn ==
  \E p \in Producers :
    /\ at[p].pc = "flush_wait"
    /\ sems.flush > 0
    /\ sems' = [sems EXCEPT !.flush = @ - 1]
    /\ at' = [at EXCEPT ![p] = Idle]
    /\ UNCHANGED <<buffer, _head, _tail, _stalling_enabled, _stalled_message,
                   _producer_lock, journal, treeVars, storageVars, tableVars,
                   pureVars>>

\* dequeue: head and tail are loaded; with h == t it returns NoMessage and
\* nothing changes.
Dequeue ==
  /\ at[Consumer].pc = "idle"
  /\ _head # _tail
  /\ at' = [at EXCEPT ![Consumer] = [pc |-> "read", flush |-> FALSE, h |-> _head]]
  /\ UNCHANGED <<buffer, _head, _tail, _stalling_enabled, _stalled_message,
                 sems, _producer_lock, journal, treeVars, storageVars,
                 tableVars, pureVars>>

\* The rest of dequeue: the envelope and the string are read and the head is
\* stored. The consumer calls signal_flush() when what it got is a token.
DequeueRead ==
  /\ at[Consumer].pc = "read"
  /\ LET out_msg == read_bytes(buffer, at[Consumer].h, sizeof_Message)
         str_size == out_msg[1].size
         h == (at[Consumer].h + sizeof_Message) % BufSize
         out == read_bytes(buffer, h, str_size)
     IN  /\ _head' = (h + str_size) % BufSize
         /\ journal' = [journal EXCEPT
                          !.delivered = Append(@, [header |-> out_msg,
                                                   str |-> c_str(out)])]
         /\ sems' = IF out_msg[1].output = 0
                    THEN [sems EXCEPT !.flush = @ + 1]
                    ELSE sems
  /\ at' = [at EXCEPT ![Consumer] = Idle]
  /\ UNCHANGED <<buffer, _tail, _stalling_enabled, _stalled_message,
                 _producer_lock, treeVars, storageVars, tableVars, pureVars>>

\* The consumer takes the stalled message: signal_flush() when it is a token,
\* then stall_finished().
StallFinished ==
  /\ at[Consumer].pc = "idle"
  /\ _stalled_message # <<>>
  /\ _stalled_message' = <<>>
  /\ sems' = [flush |-> sems.flush
                         + (IF _stalled_message[1].output = 0 THEN 1 ELSE 0),
              stalling |-> sems.stalling + 1]
  /\ UNCHANGED <<buffer, _head, _tail, _stalling_enabled, _producer_lock, at,
                 journal, treeVars, storageVars, tableVars, pureVars>>

NextLog ==
  \/ Enqueue \/ Flush \/ EnqueueWrite \/ Stall \/ FlushReturn
  \/ Dequeue \/ DequeueRead \/ StallFinished

SpecLog == InitLog /\ [][NextLog]_vars

\* The consumer thread and a producer inside a call are scheduled again and
\* again; nobody has to start a new call.
SpecLogFair ==
  /\ SpecLog
  /\ WF_vars(EnqueueWrite) /\ WF_vars(Stall) /\ WF_vars(FlushReturn)
  /\ WF_vars(Dequeue) /\ WF_vars(DequeueRead) /\ WF_vars(StallFinished)

\* ---------------------------------------------------------------- threads
\* The region indices i + off for i = start, start + 4, ... below region_count.
RECURSIVE Wave(_, _, _)
Wave(i, region_count, off) ==
  IF i < region_count
  THEN <<i + off>> \o Wave(i + 4, region_count, off)
  ELSE <<>>

\* The operations of one benchmark thread, a region being one position long.
doAllMemoryOps(base, region_count) ==
  LET commits == Wave(0, region_count, 0) \o Wave(1, region_count, 0)
                 \o Wave(4, region_count, -1)
      uncommits == Wave(4, region_count, -1) \o Wave(1, region_count, 0)
                   \o Wave(0, region_count, 0)
  IN <<Op("reserve", base, base + region_count, 1, 1)>>
     \o [k \in 1..Len(commits) |->
           Op("commit", base + commits[k], base + commits[k] + 1, mtNone, 1)]
     \o [k \in 1..Len(uncommits) |->
           Op("uncommit", base + uncommits[k], base + uncommits[k] + 1, mtNone, 0)]
     \o <<Op("release", base, base + region_count, mtNone, 0)>>

Threads == DOMAIN pc
Reader == MaxThreads + 1

\* doTest(nR, nT): nT threads run doAllMemoryOps(nR), each on a range of its
\* own; the ranges touch (gap = 0) or lie one position apart.
InitThreads ==
  /\ InitCommon
  /\ script = NoScript
  /\ lock = NoThread
  /\ snapshot = NoSnapshot
  /\ crashed = FALSE
  /\ InitLib
  /\ \E nT \in 1..MaxThreads, nR \in 1..MaxRegions, gap \in 0..1 :
       /\ pc = [th \in 1..nT |->
                  [ops |-> doAllMemoryOps((th - 1) * (nR + gap), nR),
                   next |-> 1, at |-> "idle"]]
       /\ pending = [th \in 1..nT |-> SummaryDiff(0, 0)]

\* A thread with an operation left takes the tracker lock.
Acquire ==
  \E th \in Threads :
    /\ pc[th].at = "idle"
    /\ pc[th].next <= Len(pc[th].ops)
    /\ lock = NoThread
    /\ lock' = th
    /\ pc' = [pc EXCEPT ![th].at = "locked"]
    /\ UNCHANGED <<libVars, tree, prng_seed, summary, nops, script, last, pending,
                   snapshot, crashed>>

\* The holder of the lock registers the mapping of its operation.
Record ==
  \E th \in Threads :
    /\ pc[th].at = "locked"
    /\ \E r \in {Result(tree, prng_seed, pc[th].ops[pc[th].next])} :
         /\ tree' = r.tree
         /\ prng_seed' = r.prng_seed
         /\ pending' = [pending EXCEPT ![th] = r.diff]
    /\ pc' = [pc EXCEPT ![th].at = "recorded"]
    /\ UNCHANGED <<libVars, summary, nops, script, last, lock, snapshot, crashed>>

\* The holder of the lock folds the returned SummaryDiff into the counters.
Fold ==
  \E th \in Threads :
    /\ pc[th].at = "recorded"
    /\ summary' = apply(summary, pending[th])
    /\ pending' = [pending EXCEPT ![th] = SummaryDiff(0, 0)]
    /\ pc' = [pc EXCEPT ![th].at = "folded"]
    /\ UNCHANGED <<libVars, tree, prng_seed, nops, script, last, lock, snapshot, crashed>>

\* The operation is complete: the lock is given back.
Unlock ==
  \E th \in Threads :
    /\ pc[th].at = "folded"
    /\ lock' = NoThread
    /\ pc' = [pc EXCEPT ![th].at = "idle", ![th].next = @ + 1]
    /\ UNCHANGED <<libVars, tree, prng_seed, summary, nops, script, last, pending,
                   snapshot, crashed>>

ReaderAcquire ==
  /\ lock = NoThread
  /\ lock' = Reader
  /\ UNCHANGED <<libVars, tree, prng_seed, summary, nops, script, last, pc, pending,
                 snapshot, crashed>>

\* The reader copies the counters; the nodes of the tree at that moment and
\* the number of operations completed before it are kept beside the copy.
ReaderSnapshot ==
  /\ lock = Reader
  /\ snapshot' = [taken |-> TRUE, counters |-> summary, nodes |-> InOrder(tree),
                  completed |-> [th \in Threads |-> pc[th].next - 1]]
  /\ lock' = NoThread
  /\ UNCHANGED <<libVars, tree, prng_seed, summary, nops, script, last, pc, pending,
                 crashed>>

NextThreads ==
  \/ Acquire
  \/ Record
  \/ Fold
  \/ Unlock
  \/ ReaderAcquire
  \/ ReaderSnapshot

SpecThreads == InitThreads /\ [][NextThreads]_vars

\* Every thread has run its program to the end.
AllJoined ==
  \A th \in Threads : pc[th].next > Len(pc[th].ops) /\ pc[th].at = "idle"

\* ----------------------------------------------------------------- claims
\* The nodes of the tree in key order.
Nodes == InOrder(tree)

\* The state register_mapping is asked to install by the last operation.
TargetState(op) ==
  IF op.kind = "reserve" \/ op.kind = "uncommit" THEN Reserved
  ELSE IF op.kind = "commit" THEN Committed
  ELSE Released

\* The RegionData of the interval that ends at the i-th node: the metadata of
\* the node before it, the empty metadata before the first node.
InData(io, i) == IF i = 1 THEN METADATA ELSE io[i - 1].value.metadata

\* Bytes a walk over consecutive nodes finds in one of the states of types.
RECURSIVE WalkBytes(_, _, _)
WalkBytes(io, i, types) ==
  IF i >= Len(io) THEN 0
  ELSE (IF io[i].value.out \in types THEN io[i + 1].key - io[i].key ELSE 0)
       + WalkBytes(io, i + 1, types)

\* C1: after register_mapping(A, B, target_state, metadata) with A < B, every
\* position of [A, B) has state target_state, and the caller's metadata when
\* the caller's metadata is to replace what is there (reserve, release).
C1_RangeHasTargetState ==
  \A p \in AllPositions :
    (last.op.kind \in {"reserve", "commit", "uncommit", "release"}
     /\ last.op.A <= p /\ p < last.op.B)
    => /\ StateAt(tree, p).type = TargetState(last.op)
       /\ last.op.kind \in {"reserve", "release"}
          => StateAt(tree, p).data = RegionData(last.op.stack, last.op.mem_tag)

\* C2: register_mapping(A, B, ...) leaves the state and RegionData of every
\* position below A and every position from B on as they were before the call.
C2_OutsideRangeUnchanged ==
  \A p \in AllPositions :
    (last.op.kind # "none" /\ (p < last.op.A \/ p >= last.op.B))
    => StateAt(tree, p) = last.before[p]

\* C3: after every mutation, for every two nodes consecutive in key order the
\* out state of the lower node equals the in state of the higher node.
C3_OutEqualsNextIn ==
  \A i \in 1..(Len(Nodes) - 1) : Nodes[i].value.out = Nodes[i + 1].value.in

\* C4: no node is a no-op: no node has the same state type on both sides and
\* equal RegionData on both sides.
C4_NoNoopNode ==
  \A i \in 1..Len(Nodes) :
    ~(/\ Nodes[i].value.in = Nodes[i].value.out
      /\ EquivalentMetadata(InData(Nodes, i), Nodes[i].value.metadata))

\* C5: no two nodes have the same key: the keys of an in-order walk are
\* strictly increasing.
C5_KeysStrictlyIncreasing ==
  \A i \in 1..(Len(Nodes) - 1) : Nodes[i].key < Nodes[i + 1].key

\* C6: in a non-empty tree the node with the smallest key has in = Released
\* and the node with the largest key has out = Released.
C6_EndsAreReleased ==
  Nodes # <<>> => /\ Nodes[1].value.in = Released
                  /\ Nodes[Len(Nodes)].value.out = Released

\* C7: a Released state carries the tag mtNone and the empty stack handle.
C7_ReleasedHasEmptyData ==
  \A i \in 1..Len(Nodes) :
    Nodes[i].value.out = Released => Nodes[i].value.metadata = METADATA

\* C8: the sum of all returned SummaryDiffs equals what a fresh in-order walk
\* of the tree finds reserved (Reserved or Committed) and committed. The
\* SummaryDiff of the code has one reserve and one commit entry, so the
\* equation is stated for the totals over all tags, which the per-tag
\* equation implies.
C8_SummaryMatchesWalk ==
  /\ summary.reserve = WalkBytes(Nodes, 1, {Reserved, Committed})
  /\ summary.commit = WalkBytes(Nodes, 1, {Committed})

\* C9: for every non-empty range R, tag and stack, reserve(R); release(R) on
\* an empty tree leaves the tree empty and the reserved and committed
\* counters zero.
C9_ReserveReleaseLeavesNothing ==
  (ScriptDone /\ script.name = "reserve_release")
  => (tree = nullptr /\ summary = SummaryDiff(0, 0))

\* C10: reserve(R); commit(C); uncommit(C); release(R) with C inside R on an
\* empty tree leaves the tree empty and the counters zero.
C10_CommitUncommitLeavesNothing ==
  (ScriptDone /\ script.name = "commit_uncommit")
  => (tree = nullptr /\ summary = SummaryDiff(0, 0))

\* C11: for all a < b < c, reserve([a, b)) then reserve([b, c)) with identical
\* metadata on an empty tree gives the tree of one reservation of [a, c): two
\* nodes, at a (Released -> Reserved) and at c (Reserved -> Released), and c - a
\* reserved bytes.
C11_AdjacentReservesMerge ==
  (ScriptDone /\ script.name = "adjacent_reserve")
  => LET a == script.ops[1].A
         c == script.ops[2].B
         md == RegionData(script.ops[1].stack, script.ops[1].mem_tag)
     IN  /\ Nodes = <<[key |-> a, value |-> State(Released, Reserved, md)],
                      [key |-> c, value |-> State(Reserved, Released, METADATA)]>>
         /\ summary = SummaryDiff(c - a, 0)

\* C14: for all a < m < b, reserve([a, b), S1, T) then commit([a, m), S2) on an
\* empty tree gives exactly three nodes, at a, m and b, and the counters
\* reserve = b - a, commit = m - a.
C14_ReserveCommitThreeNodes ==
  (ScriptDone /\ script.name = "reserve_commit")
  => /\ Len(Nodes) = 3
     /\ Nodes[1].key = script.ops[1].A
     /\ Nodes[2].key = script.ops[2].B
     /\ Nodes[3].key = script.ops[1].B
     /\ summary = SummaryDiff(script.ops[1].B - script.ops[1].A,
                              script.ops[2].B - script.ops[2].A)

\* C12: set_tag(from, sz, tag) changes neither the state type nor the stack
\* handle of any position, inside or outside [from, from + sz).
C12_SetTagKeepsTypeAndStack ==
  last.op.kind = "set_tag"
  => \A p \in AllPositions :
       /\ StateAt(tree, p).type = last.before[p].type
       /\ StateAt(tree, p).data.stack_idx = last.before[p].data.stack_idx

\* The positions of [A, B) of the last operation.
LastRange == {p \in AllPositions : last.op.A <= p /\ p < last.op.B}

\* C13: a commit (state Committed, use_tag_inplace, caller's tag mtNone) on a
\* range inside reserved memory leaves the tag of every byte of the range as it
\* was before the call, and its SummaryDiff charges the bytes that became
\* committed.
C13_CommitKeepsTags ==
  (/\ last.op.kind = "commit"
   /\ \A p \in LastRange : last.before[p].type \in {Reserved, Committed})
  => /\ \A p \in LastRange :
          StateAt(tree, p).data.mem_tag = last.before[p].data.mem_tag
     /\ last.diff.commit =
          Cardinality({p \in LastRange : last.before[p].type = Reserved})

\* C15: uncommit(C) on a range C that is Committed with tag T inside a
\* reservation turns every byte of C into Reserved with tag T, lowers the
\* committed counter by |C| and leaves the reserved counter unchanged.
C15_UncommitKeepsReservation ==
  (/\ last.op.kind = "uncommit"
   /\ \A p \in LastRange : /\ last.before[p].type = Committed
                             /\ last.before[p].data.mem_tag # mtNone
   /\ \A p, q \in LastRange :
        last.before[p].data.mem_tag = last.before[q].data.mem_tag)
  => /\ \A p \in LastRange :
          /\ StateAt(tree, p).type = Reserved
          /\ StateAt(tree, p).data.mem_tag = last.before[p].data.mem_tag
     /\ last.diff = SummaryDiff(0, 0 - Cardinality(LastRange))

\* C16: for one reservation [a, d) with tag T1 and stack S1, a < b < c < d and
\* T2 # T1, set_tag([b, c), T2) gives exactly four nodes at a, b, c, d, all
\* intervals Reserved with stack S1, [a, b) and [c, d) tagged T1 and [b, c)
\* tagged T2, and a SummaryDiff that leaves the reserved total unchanged.
C16_TagRewriteFourNodes ==
  (ScriptDone /\ script.name = "tag_rewrite")
  => LET r == script.ops[1]
         st == script.ops[2]
         old == RegionData(r.stack, r.mem_tag)
         new == RegionData(r.stack, st.mem_tag)
     IN  /\ Nodes = <<[key |-> r.A, value |-> State(Released, Reserved, old)],
                      [key |-> st.A, value |-> State(Reserved, Reserved, new)],
                      [key |-> st.B, value |-> State(Reserved, Reserved, old)],
                      [key |-> r.B, value |-> State(Reserved, Released, METADATA)]>>
         /\ last.diff = SummaryDiff(0, 0)

\* C17: register_mapping(A, A, state, metadata) is a no-op for every state and
\* every tree: the nodes and their values are unchanged and the returned
\* SummaryDiff is zero.
C17_EmptyRangeIsNoop ==
  [][(nops' = nops + 1 /\ last'.op.A = last'.op.B)
     => (tree' = tree /\ last'.diff = SummaryDiff(0, 0))]_vars

\* C18: when every thread has run doAllMemoryOps on its own range, with whole
\* operations interleaved, the tree is empty and the counters are zero.
C18_BenchmarkEndsEmpty ==
  AllJoined => (tree = nullptr /\ summary = SummaryDiff(0, 0))

\* C19: every snapshot of the counters equals the totals a walk finds in the
\* tree after exactly the operations completed when the snapshot was taken.
C19_SnapshotMatchesTree ==
  snapshot.taken
  => /\ snapshot.counters.reserve
          = WalkBytes(snapshot.nodes, 1, {Reserved, Committed})
     /\ snapshot.counters.commit = WalkBytes(snapshot.nodes, 1, {Committed})

\* C20: a register_mapping during which the node allocator returns null
\* returns, leaves the tree as it was and returns a zero SummaryDiff. (The
\* count of dropped changes has no counterpart in the code.)
C20_AllocFailureDropsChange ==
  [][(nops' = nops + 1 /\ last'.null_alloc)
     => (~crashed' /\ tree' = tree /\ last'.diff = SummaryDiff(0, 0))]_vars

\* C21: after any sequence of recording operations, the malformed ones
\* included, neither the reserved nor the committed counter is below zero.
C21_CountersNeverNegative ==
  summary.reserve >= 0 /\ summary.commit >= 0

\* C22: after any sequence of reserve, commit, uncommit, release and set_tag
\* operations the committed counter is at most the reserved counter.
C22_CommittedAtMostReserved ==
  summary.commit <= summary.reserve

\* C23: after commit_memory(base, size, stack) on a range that lay inside one
\* reservation, every position of [base, base + size) is Committed and has
\* the tag the reservation had.
C23_CommitMemoryCommits ==
  (/\ last.op.kind = "commit_memory"
   /\ \A p \in LastRange : last.before[p].type = Reserved
   /\ \A p, q \in LastRange : last.before[p].data = last.before[q].data)
  => \A p \in LastRange :
       /\ StateAt(tree, p).type = Committed
       /\ StateAt(tree, p).data.mem_tag = last.before[p].data.mem_tag

\* C24: in detailed mode two pushes of equal stacks return the same
\* StackIndex, whatever was pushed in between, and the later one stores nothing.
C24_PushIsIdempotent ==
  is_detailed_mode
  => \A i, j \in 1..Len(pushes) :
       (i < j /\ pushes[i].stack = pushes[j].stack)
       => (pushes[i].idx = pushes[j].idx /\ ~pushes[j].stored)

\* C25: in detailed mode get(idx) is the stack whose push returned idx, the
\* empty stack included, after any later pushes.
C25_GetReturnsPushedStack ==
  is_detailed_mode
  => \A i \in 1..Len(pushes) : get(stack_chunks, pushes[i].idx) = pushes[i].stack

\* C26: in summary-only mode every push returns StackIndex(0, 0) and stores
\* nothing, and the chunks stay the one empty chunk of the constructor.
C26_SummaryModeStoresNothing ==
  ~is_detailed_mode
  => /\ \A i \in 1..Len(pushes) :
          pushes[i].idx = StackIndex(0, 0) /\ ~pushes[i].stored
     /\ stack_chunks = <<NCSChunk>>

\* Summary-only mode after MaxPushes pushes, two of them of different,
\* non-empty stacks that share a slot.
C26_Witness ==
  /\ ~is_detailed_mode
  /\ Len(pushes) = MaxPushes
  /\ \E i, j \in 1..Len(pushes) :
       /\ pushes[i].stack # pushes[j].stack
       /\ ~is_empty(pushes[i].stack) /\ ~is_empty(pushes[j].stack)
       /\ calculate_hash(pushes[i].stack) % static_chunk_size
            = calculate_hash(pushes[j].stack) % static_chunk_size

\* C27: every make_tag returns; two calls with the same name return the same
\* tag and the later one adds no entry to either mapping; calls with different
\* names return different tags.
C27_MakeTagIsIdempotent ==
  /\ ~Hung
  /\ \A i, j \in 1..Len(made) :
       i < j =>
         IF made[i].name = made[j].name
         THEN made[i].tag = made[j].tag /\ ~made[j].added
         ELSE made[i].tag # made[j].tag

\* C28: for every name n that make_tag registered with tag t, get(t) is n and
\* get(n) is t, and get(t2) is not n for every other tag t2 of tag_to_name,
\* the old-style tags included.
C28_MappingsAreInverse ==
  \A i \in 1..Len(made) :
    ~made[i].hung =>
      /\ made[i].tag < Len(tag_to_name)
      /\ get_name(Table, made[i].tag) = made[i].name
      /\ ~NameToTagTable_get(Table, made[i].name).hung
      /\ NameToTagTable_get(Table, made[i].name).ret = made[i].tag
      /\ \A t2 \in 0..(Len(tag_to_name) - 1) :
           t2 # made[i].tag => get_name(Table, t2) # made[i].name

\* The names of the first j registrations.
NamesMade(j) == {made[i].name : i \in 1..j}

\* C29: once as many distinct names are registered as the tag integer type
\* has values left, make_tag returns mtNone for every further name, and no
\* two different names are ever given the same tag other than mtNone.
C29_OverflowReturnsNone ==
  \A j \in 1..Len(made) :
    ~made[j].hung =>
      /\ (/\ made[j].name \notin NamesMade(j - 1)
          /\ Cardinality(NamesMade(j - 1)) >= MemTagValues - mt_number_of_tags)
         => made[j].tag = mtNone
      /\ \A i \in 1..(j - 1) :
           (made[i].name # made[j].name /\ made[j].tag # mtNone)
           => made[i].tag # made[j].tag

\* C30: when all registering threads have their tags, threads with the same
\* name have the same tag, threads with different names have different tags,
\* and the table holds exactly one entry for every registered name.
C30_ConcurrentRegistration ==
  AllRegistered
  => /\ \A t1, t2 \in DOMAIN pc :
          (pc[t1].name = pc[t2].name) <=> (pc[t1].tag = pc[t2].tag)
     /\ \A th \in DOMAIN pc :
          Cardinality({e \in 1..Len(entries) :
                         adr_at(names, entries[e].name) = pc[th].name}) = 1

\* The nodes of a treap with their priorities.
RECURSIVE NodeSet(_)
NodeSet(t) ==
  IF t.isnull THEN {}
  ELSE NodeSet(t.left) \cup NodeSet(t.right)
       \cup {[key |-> t.key, value |-> t.value, priority |-> t.priority]}

\* BST order without duplicates, and no child with a greater priority than
\* its parent.
RECURSIVE IsTreap(_)
IsTreap(t) ==
  \/ t.isnull
  \/ /\ \A n \in NodeSet(t.left) : n.key < t.key
     /\ \A n \in NodeSet(t.right) : n.key > t.key
     /\ \A c \in {t.left, t.right} :
          ~c.isnull => ~PriorityGT(c.priority, t.priority)
     /\ IsTreap(t.left) /\ IsTreap(t.right)

Keys(t) == {n.key : n \in NodeSet(t)}

\* C31: visit(from, to, f) calls f on the nodes with from <= key < to, once
\* each, in ascending key order, and on no other node.
C31_VisitInOrder ==
  probe.fn = "visit"
  => LET from == probe.args[1]
         to == probe.args[2]
         io == InOrder(probe.before)
     IN  probe.ret = [i \in 1..Cardinality({k \in Keys(probe.before) :
                                              from <= k /\ k < to}) |->
                        io[i + Cardinality({k \in Keys(probe.before) : k < from})].key]

\* C32: the LE search returns the node with the greatest key <= A, the node
\* with key A when there is one, and null only when every key is above A.
C32_LeSearchFindsGreatestLeq ==
  probe.fn = "le_search"
  => LET A == probe.args[1]
         leq == {k \in Keys(probe.before) : k <= A}
     IN  IF leq = {} THEN probe.ret = NullPtr
         ELSE /\ probe.ret # NullPtr
              /\ \A k \in leq : k <= NodeAt(probe.before, PathOf(probe.ret)).key
              /\ NodeAt(probe.before, PathOf(probe.ret)).key <= A

\* C33: find(t, k) on a valid treap returns the node with key k when t has
\* one, and null when it has none.
C33_FindFindsKey ==
  (probe.fn = "find" /\ IsTreap(probe.before))
  => IF probe.args[1] \in Keys(probe.before)
     THEN /\ probe.ret # NullPtr
          /\ NodeAt(probe.before, PathOf(probe.ret)).key = probe.args[1]
     ELSE probe.ret = NullPtr

\* C34: upsert(t, k, v) on a valid treap leaves a treap without duplicate
\* keys whose key set is that of t with k, in which k has value v and every
\* other key the value it had; the number of nodes grows by one exactly when
\* k was not in t.
C34_UpsertSetsOneKey ==
  (probe.fn = "upsert" /\ IsTreap(probe.before))
  => LET k == probe.args[1] IN
     /\ IsTreap(tree)
     /\ Len(InOrder(tree))
          = Len(InOrder(probe.before)) + (IF k \in Keys(probe.before) THEN 0 ELSE 1)
     /\ {[key |-> n.key, value |-> n.value] : n \in NodeSet(tree)}
          = {[key |-> n.key, value |-> n.value] :
               n \in {m \in NodeSet(probe.before) : m.key # k}}
            \cup {[key |-> k, value |-> "new"]}

\* C35: remove(t, k) on a valid treap leaves a valid treap that holds the
\* nodes of t other than the node of k, each with its value and priority; a
\* key that is absent changes nothing.
C35_RemoveTakesOneKey ==
  (probe.fn = "remove" /\ IsTreap(probe.before))
  => /\ IsTreap(tree)
     /\ Len(InOrder(tree)) = Cardinality(NodeSet(tree))
     /\ NodeSet(tree) = {n \in NodeSet(probe.before) : n.key # probe.args[1]}
     /\ probe.args[1] \notin Keys(probe.before) => tree = probe.before

\* A key below the root, with keys on both sides of it, has been removed.
C35_Witness ==
  /\ probe.fn = "remove"
  /\ probe.args[1] \in Keys(probe.before)
  /\ probe.args[1] # probe.before.key
  /\ \E a, b \in Keys(tree) : a < probe.args[1] /\ probe.args[1] < b

\* C36: register_mapping does not depend on the priorities: on two valid
\* treaps with the same nodes in key order (keys and IntervalChanges) and
\* different shapes, the same call leaves the same nodes in key order and
\* returns the same SummaryDiff.
C36_PrioritiesDoNotMatter ==
  (/\ twin.fn = "register_mapping"
   /\ IsTreap(probe.before) /\ IsTreap(twin.before)
   /\ InOrder(probe.before) = InOrder(twin.before))
  => /\ InOrder(tree) = InOrder(twin.tree)
     /\ last.diff = twin.diff
\* A valid treap whose nodes in key order describe intervals: nothing is mapped
\* before the first node or after the last, and every node's in state is the out
\* state of the node before it.
Intervals(t) ==
  LET io == InOrder(t)
  IN  /\ IsTreap(t)
      /\ io # <<>> => /\ io[1].value.in = Released
                      /\ io[Len(io)].value.out = Released
      /\ \A i \in 1..(Len(io) - 1) : io[i].value.out = io[i + 1].value.in

C38_GetAndPutReturn ==
  \A i \in 1..Len(made) : made[i].hung = FALSE
\* C39: what dequeue returned so far is what enqueue accepted, message by
\* message in the order of acceptance, envelope and string unchanged, nothing
\* twice and nothing left out; and when head == tail with no dequeue under way,
\* every accepted message was returned.
C39_DequeueReturnsWhatWasAccepted ==
  /\ Len(journal.delivered) <= Len(journal.accepted)
  /\ \A i \in 1..Len(journal.delivered) :
       i <= Len(journal.accepted) => journal.delivered[i] = journal.accepted[i]
  /\ (_head = _tail /\ at[Consumer].pc = "idle")
     => Len(journal.delivered) = Len(journal.accepted)

\* C40: a producer that called flush() gets out of it.
C40_FlushReturns ==
  \A p \in Producers : at[p].flush ~> ~at[p].flush
====
